---- MODULE Spec2Model ----
(***************************************************************************)
(* Model of the two command-line tools of the repository:                  *)
(*   skills/scripts/cf_schema.py  schema cache-and-query tool              *)
(*   skills/scripts/cf_api.py     API request forwarder                    *)
(*                                                                         *)
(* The module holds five specifications over one set of variables:         *)
(*   Spec        the schema cache: commands run one after another while    *)
(*               the clock advances (cf_schema.py fetch_schema/load_schema)*)
(*   SpecApi     one invocation of the forwarder (cf_api.py main)          *)
(*   SpecRequest make_request called with any method and path             *)
(*   SpecExpand  expand_endpoint_spec applied to bounded schemas           *)
(*   SpecSearch  search_endpoints applied to bounded schemas and queries   *)
(***************************************************************************)
EXTENDS Integers, Sequences, FiniteSets, TLC

VARIABLES
    now,        \* datetime.now(), in hours
    cacheFile,  \* CACHE_FILE  (~/.cache/cloudflare-api/openapi.json)
    cacheMeta,  \* CACHE_META  (~/.cache/cloudflare-api/meta.json)
    last,       \* what the command that ran at the current instant did
    env,        \* os.environ: CLOUDFLARE_API_TOKEN, CLOUDFLARE_API_KEY, CLOUDFLARE_EMAIL
    argv,       \* sys.argv[1:] of the forwarder
    call,       \* the arguments make_request was called with
    sent,       \* the HTTP requests handed to urlopen, in order
    response,   \* what urlopen gave for the request
    apiResult,  \* the dict make_request returned
    exitStatus, \* the exit status of the forwarder, -1 while it has not exited
    schema,     \* the schema document a query function is applied to
    arg,        \* the other arguments of the query function
    out         \* what the query function returned

cacheVars == <<now, cacheFile, cacheMeta, last>>
apiVars == <<env, argv, call, sent, response, apiResult, exitStatus>>

queryVars == <<schema, arg, out>>

vars == <<now, cacheFile, cacheMeta, last,
          env, argv, call, sent, response, apiResult, exitStatus,
          schema, arg, out>>

-----------------------------------------------------------------------------
(* Bounds of the model.                                                    *)

\* the clock runs from 0 to MaxTime hours
MaxTime == 48
\* commands are run TickHours apart, or at the same instant
TickHours == 12
\* a downloaded schema has 0..MaxPaths entries under "paths"
MaxPaths == 1
\* a component of a schema given to expand_endpoint_spec nests dicts and
\* lists MaxNest deep around its leaves
MaxNest == 1
\* the query given to search_endpoints has at most MaxQueryLen characters
MaxQueryLen == 2
\* the path argument of make_request has at most MaxPathLen characters
MaxPathLen == 4
\* the path argument on the forwarder's command line has at most
\* MaxArgPathLen characters
MaxArgPathLen == 1

-----------------------------------------------------------------------------
(* cf_schema.py: the cache.                                                *)

CACHE_HOURS == 24

\* info.version of a schema document: absent, or a version string
Versions == {"none", "v1"}

\* A JSON document as far as fetch_schema looks at it: a JSON object with
\* an optional info.version and a number of paths, or valid JSON on which
\* schema.get(...) raises (a list, a string, a number, info not an object).
ObjDocs == [kind : {"obj"}, version : Versions, paths : 0..MaxPaths]
NonObjDoc == [kind |-> "nonobj", version |-> "none", paths |-> 0]
NoDoc == [kind |-> "none", version |-> "none", paths |-> 0]
Docs == ObjDocs \cup {NonObjDoc}

\* what urlopen + read + decode + json.loads gives: an error of the
\* transport, a body that is not JSON, or a document
NetOutcomes == {[st |-> "neterr", doc |-> NoDoc], [st |-> "badjson", doc |-> NoDoc]}
                   \cup {[st |-> "ok", doc |-> d] : d \in Docs}

\* what a write_text does: writes all, fails before truncating the file
\* (open fails), or fails after it (the file is left truncated)
WriteOutcomes == {"ok", "openfail", "partial"}

\* the outcomes of one run of fetch_schema's try block: the download, and
\* the writes that are reached (a write that is not reached is "ok" here)
FetchOutcomes ==
    {[net |-> n, fw |-> "ok", mw |-> "ok"] : n \in {x \in NetOutcomes : x.st # "ok"}}
    \cup {[net |-> n, fw |-> fw, mw |-> "ok"] :
              n \in {x \in NetOutcomes : x.st = "ok"}, fw \in WriteOutcomes \ {"ok"}}
    \cup {[net |-> n, fw |-> "ok", mw |-> "ok"] :
              n \in {x \in NetOutcomes : x.st = "ok" /\ x.doc.kind # "obj"}}
    \cup {[net |-> n, fw |-> "ok", mw |-> mw] :
              n \in {x \in NetOutcomes : x.st = "ok" /\ x.doc.kind = "obj"},
              mw \in WriteOutcomes}

AbsentFile == [st |-> "absent", doc |-> NoDoc, dl |-> 0]
CorruptFile == [st |-> "corrupt", doc |-> NoDoc, dl |-> 0]
AbsentMeta == [st |-> "absent", cached_at |-> 0, version |-> "none", paths_count |-> 0]
CorruptMeta == [st |-> "corrupt", cached_at |-> 0, version |-> "none", paths_count |-> 0]

Raise == [st |-> "raise", doc |-> NoDoc]
Returned(d) == [st |-> "ok", doc |-> d]
NoResult == [st |-> "none", doc |-> NoDoc]

\* json.loads(CACHE_FILE.read_text())
ReadCacheFile(file) ==
    IF file.st = "ok" THEN Returned(file.doc) ELSE Raise

\* schema.get("info", {}).get("version", "unknown")
MetaVersion(doc) == IF doc.version = "none" THEN "unknown" ELSE doc.version

\* len(schema.get("paths", {}))
PathsCount(doc) == doc.paths

\* mutant of Fresh: a cache exactly CACHE_HOURS old still counts as fresh
FreshInclusive(cached_at, t) == t - cached_at <= CACHE_HOURS

\* datetime.now() - cached_at < timedelta(hours=CACHE_HOURS)
Fresh(cached_at, t) == t - cached_at < CACHE_HOURS

is_cache_valid(file, meta, t) ==
    IF file.st = "absent" \/ meta.st = "absent"
    THEN FALSE
    ELSE IF meta.st = "ok" THEN Fresh(meta.cached_at, t) ELSE FALSE

\* CACHE_FILE.write_text(data)
WriteCacheFile(file, doc, t, fw) ==
    CASE fw = "ok" -> [st |-> "ok", doc |-> doc, dl |-> t]
      [] fw = "openfail" -> file
      [] fw = "partial" -> CorruptFile

\* CACHE_META.write_text(json.dumps({...}))
WriteCacheMeta(meta, doc, t, mw) ==
    CASE mw = "ok" -> [st |-> "ok", cached_at |-> t,
                       version |-> MetaVersion(doc), paths_count |-> PathsCount(doc)]
      [] mw = "openfail" -> meta
      [] mw = "partial" -> CorruptMeta

\* mutant of Fallback: the error is raised again without reading the cache
FallbackNever(file) == Raise

\* the except branch of fetch_schema
Fallback(file) ==
    IF file.st # "absent" THEN ReadCacheFile(file) ELSE Raise

\* fetch_schema(force): the files, the result and what happened on the way
fetch_schema(force, file, meta, t, net, fw, mw) ==
    IF ~force /\ is_cache_valid(file, meta, t)
    THEN [file |-> file, meta |-> meta, attempted |-> FALSE, failedAt |-> "none",
          result |-> ReadCacheFile(file)]
    ELSE IF net.st # "ok"
    THEN [file |-> file, meta |-> meta, attempted |-> TRUE, failedAt |-> "download",
          result |-> Fallback(file)]
    ELSE LET f1 == WriteCacheFile(file, net.doc, t, fw) IN
         IF fw # "ok"
         THEN [file |-> f1, meta |-> meta, attempted |-> TRUE, failedAt |-> "filewrite",
               result |-> Fallback(f1)]
         ELSE IF net.doc.kind # "obj"
         THEN [file |-> f1, meta |-> meta, attempted |-> TRUE, failedAt |-> "metabuild",
               result |-> Fallback(f1)]
         ELSE LET m1 == WriteCacheMeta(meta, net.doc, t, mw) IN
              IF mw # "ok"
              THEN [file |-> f1, meta |-> m1, attempted |-> TRUE, failedAt |-> "metawrite",
                    result |-> Fallback(f1)]
              ELSE [file |-> f1, meta |-> m1, attempted |-> TRUE, failedAt |-> "none",
                    result |-> Returned(net.doc)]

\* load_schema()
load_schema(file, meta, t, net, fw, mw) ==
    IF is_cache_valid(file, meta, t)
    THEN [file |-> file, meta |-> meta, attempted |-> FALSE, failedAt |-> "none",
          result |-> ReadCacheFile(file)]
    ELSE fetch_schema(FALSE, file, meta, t, net, fw, mw)

\* the condition of the cache a command finds: "missing" (a file is absent),
\* "unreadable" (the sidecar does not parse), "stale" (cached_at is
\* CACHE_HOURS or more before t) or "fresh"
CacheCondition(file, meta, t) ==
    CASE file.st = "absent" \/ meta.st = "absent" -> "missing"
      [] OTHER -> IF meta.st # "ok" THEN "unreadable"
                  ELSE IF t - meta.cached_at >= CACHE_HOURS THEN "stale" ELSE "fresh"

NoLast == [cmd |-> "none", force |-> FALSE, pre |-> "none",
           attempted |-> FALSE, failedAt |-> "none",
           result |-> NoResult, changed |-> FALSE]

\* the effect of a command that went through fetch_schema or load_schema
Ran(cmd, force, r) ==
    /\ cacheFile' = r.file
    /\ cacheMeta' = r.meta
    /\ last' = [cmd |-> cmd, force |-> force,
                pre |-> CacheCondition(cacheFile, cacheMeta, now),
                attempted |-> r.attempted, failedAt |-> r.failedAt,
                result |-> r.result,
                changed |-> (r.file # cacheFile \/ r.meta # cacheMeta)]
    /\ UNCHANGED now

\* a command that stops at its usage message, before the schema is loaded
Usage(cmd) ==
    /\ last' = [NoLast EXCEPT !.cmd = cmd,
                              !.pre = CacheCondition(cacheFile, cacheMeta, now)]
    /\ UNCHANGED <<now, cacheFile, cacheMeta>>

\* main: cmd == "fetch"
CmdFetch ==
    \E force \in BOOLEAN, o \in FetchOutcomes :
        Ran("fetch", force,
            fetch_schema(force, cacheFile, cacheMeta, now, o.net, o.fw, o.mw))

\* main: cmd == "search"
CmdSearch ==
    \E hasArg \in BOOLEAN, o \in FetchOutcomes :
        IF hasArg
        THEN Ran("search", FALSE, load_schema(cacheFile, cacheMeta, now, o.net, o.fw, o.mw))
        ELSE Usage("search")

\* main: cmd == "get"
CmdGet ==
    \E hasArg \in BOOLEAN, o \in FetchOutcomes :
        IF hasArg
        THEN Ran("get", FALSE, load_schema(cacheFile, cacheMeta, now, o.net, o.fw, o.mw))
        ELSE Usage("get")

\* main: cmd == "list"
CmdList ==
    \E o \in FetchOutcomes :
        Ran("list", FALSE, load_schema(cacheFile, cacheMeta, now, o.net, o.fw, o.mw))

\* main: cmd == "info"
CmdInfo ==
    \E o \in FetchOutcomes :
        Ran("info", FALSE, load_schema(cacheFile, cacheMeta, now, o.net, o.fw, o.mw))

\* the clock advances between commands
Tick ==
    /\ now + TickHours <= MaxTime
    /\ now' = now + TickHours
    /\ last' = NoLast
    /\ UNCHANGED <<cacheFile, cacheMeta>>

CacheInit ==
    /\ now = 0
    /\ cacheFile = AbsentFile
    /\ cacheMeta = AbsentMeta
    /\ last = NoLast

-----------------------------------------------------------------------------
(* cf_api.py: the forwarder.  Strings are sequences of characters.         *)

\* str.startswith
StartsWith(s, prefix) ==
    /\ Len(s) >= Len(prefix)
    /\ SubSeq(s, 1, Len(prefix)) = prefix

\* an environment variable: unset, or set to a string (possibly empty)
Unset == [set |-> FALSE, val |-> <<>>]
SetTo(v) == [set |-> TRUE, val |-> v]

\* truth value of os.environ.get(name): None and "" are false
Truthy(v) == v.set /\ Len(v.val) > 0

Envs == [token : {Unset, SetTo(<<>>), SetTo(<<"T">>)},
         key   : {Unset, SetTo(<<>>), SetTo(<<"K">>)},
         email : {Unset, SetTo(<<>>), SetTo(<<"E">>)}]

BASE_URL == <<"https://api.cloudflare.com/client/v4">>

Header(n, v) == [name |-> n, value |-> v]

\* mutant of get_auth_headers: key or email alone selects the legacy scheme
get_auth_headers_either(e) ==
    IF Truthy(e.token)
    THEN {Header("Authorization", <<"Bearer ">> \o e.token.val)}
    ELSE IF Truthy(e.key) \/ Truthy(e.email)
    THEN {Header("X-Auth-Key", e.key.val), Header("X-Auth-Email", e.email.val)}
    ELSE {}

get_auth_headers(e) ==
    IF Truthy(e.token)
    THEN {Header("Authorization", <<"Bearer ">> \o e.token.val)}
    ELSE IF Truthy(e.key) /\ Truthy(e.email)
    THEN {Header("X-Auth-Key", e.key.val), Header("X-Auth-Email", e.email.val)}
    ELSE {}

\* check_auth(): the pair (configured, message)
check_auth(e) ==
    LET headers == get_auth_headers(e) IN
    IF headers = {}
    THEN [ok |-> FALSE, msg |-> "No authentication configured"]
    ELSE IF \E h \in headers : h.name = "Authorization"
    THEN [ok |-> TRUE, msg |-> "Using API Token authentication"]
    ELSE [ok |-> TRUE, msg |-> "Using API Key + Email authentication"]

\* mutant of RequestUrl: no "/" is added to a path that lacks one
RequestUrlNoSlash(path) ==
    IF StartsWith(path, <<"h", "t", "t", "p">>) THEN path ELSE BASE_URL \o path

\* make_request: the url the request goes to
RequestUrl(path) ==
    IF StartsWith(path, <<"h", "t", "t", "p">>)
    THEN path
    ELSE IF ~StartsWith(path, <<"/">>)
    THEN BASE_URL \o <<"/">> \o path
    ELSE BASE_URL \o path

\* what urlopen gives: a response read to its end, an HTTPError, a URLError
\* or another exception (a timeout, a reset connection); the body is empty,
\* not JSON, or a JSON object whose "success" is true, false or absent
Responses ==
    [http : {"ok", "httperror"}, body : {"empty", "notjson", "true", "false", "nosuccess"}]
    \cup [http : {"urlerror", "other"}, body : {"empty"}]

NoResponse == [http |-> "none", body |-> "empty"]

\* the dict make_request returns, as far as its "success" goes
Result(success) == [success |-> success]
NoApiResult == [success |-> "none"]

\* lines 85-106: the result for a response
ResultOf(resp) ==
    CASE resp.http = "ok" ->
            IF resp.body = "empty" THEN Result("true")
            ELSE IF resp.body = "notjson" THEN Result("false")
            ELSE IF resp.body = "nosuccess" THEN Result("absent")
            ELSE Result(resp.body)
      [] resp.http = "httperror" ->
            IF resp.body \in {"empty", "notjson"} THEN Result("false")
            ELSE IF resp.body = "nosuccess" THEN Result("absent")
            ELSE Result(resp.body)
      [] OTHER -> Result("false")

\* a body argument: absent (None) or a string
NoBody == [set |-> FALSE, val |-> <<>>]

\* body.encode("utf-8") if body else None
RequestData(body) == IF Truthy(body) THEN body ELSE NoBody

\* mutant of make_request: a request that does not succeed is sent again
make_request_retrying(e, method, path, body, resp) ==
    LET req == [method |-> method, url |-> RequestUrl(path),
                headers |-> get_auth_headers(e)
                            \cup {Header("Content-Type", <<"application/json">>)},
                data |-> RequestData(body)]
    IN  IF ~check_auth(e).ok
        THEN [sent |-> <<>>, response |-> NoResponse, result |-> Result("false")]
        ELSE [sent |-> IF ResultOf(resp).success = "true" THEN <<req>> ELSE <<req, req>>,
              response |-> resp,
              result |-> ResultOf(resp)]

\* make_request(method, path, body): the requests sent, the response used
\* and the result
make_request(e, method, path, body, resp) ==
    IF ~check_auth(e).ok
    THEN [sent |-> <<>>, response |-> NoResponse, result |-> Result("false")]
    ELSE [sent |-> <<[method |-> method, url |-> RequestUrl(path),
                      headers |-> get_auth_headers(e)
                                  \cup {Header("Content-Type", <<"application/json">>)},
                      data |-> RequestData(body)]>>,
          response |-> resp,
          result |-> ResultOf(resp)]

\* "/user/tokens/verify"
VerifyPath == <<"/", "u", "s", "e", "r", "/", "t", "o", "k", "e", "n", "s", "/",
                "v", "e", "r", "i", "f", "y">>

\* verify_token()
verify_token(e, resp) == make_request(e, <<"G", "E", "T">>, VerifyPath, NoBody, resp)

\* str.upper on the letters the model's strings use
UpperChar(c) ==
    CASE c = "g" -> "G" [] c = "e" -> "E" [] c = "t" -> "T" [] c = "v" -> "V"
      [] c = "r" -> "R" [] c = "i" -> "I" [] c = "f" -> "F" [] c = "y" -> "Y"
      [] c = "p" -> "P" [] c = "o" -> "O" [] c = "s" -> "S" [] c = "a" -> "A"
      [] c = "b" -> "B" [] c = "m" -> "M" [] c = "x" -> "X"
      [] OTHER -> c
Upper(s) == [i \in 1..Len(s) |-> UpperChar(s[i])]

\* str.lower on the letters the model's strings use
LowerChar(c) ==
    CASE c = "A" -> "a" [] c = "B" -> "b"
      [] OTHER -> c
Lower(s) == [i \in 1..Len(s) |-> LowerChar(s[i])]

Methods == {<<"G", "E", "T">>, <<"P", "O", "S", "T">>, <<"P", "U", "T">>,
            <<"P", "A", "T", "C", "H">>, <<"D", "E", "L", "E", "T", "E">>}
VERIFY == <<"V", "E", "R", "I", "F", "Y">>

\* json.loads(body) succeeds; of the body arguments below only "{}" is JSON
JsonLoadsOk(b) == b = <<"{", "}">>

\* result.get("success") is true
SuccessTruthy(r) == r.success = "true"

\* strings over the characters that decide RequestUrl, up to n characters
PathChars == {"h", "t", "p", "/"}
SeqsUpTo(S, n) == UNION {[1..k -> S] : k \in 0..n}
Paths == SeqsUpTo(PathChars, MaxPathLen)

CmdArgs == Methods \cup {VERIFY, <<"g", "e", "t">>, <<"v", "e", "r", "i", "f", "y">>,
                         <<"H", "E", "A", "D">>}
BodyArgs == {<<>>, <<"{", "}">>, <<"{">>}
Argvs ==
    {<<>>}
    \cup {<<c>> : c \in CmdArgs}
    \cup {<<c, p>> : c \in CmdArgs, p \in SeqsUpTo(PathChars, MaxArgPathLen)}
    \cup {<<c, p, b>> : c \in CmdArgs, p \in SeqsUpTo(PathChars, MaxArgPathLen),
                        b \in BodyArgs}

NoCall == [made |-> FALSE, method |-> <<>>, path |-> <<>>, body |-> NoBody]
Call(m, p, b) == [made |-> TRUE, method |-> m, path |-> p, body |-> b]

\* the forwarder exits with status st, having called make_request or not
Exit(st, c, r) ==
    /\ exitStatus' = st
    /\ call' = c
    /\ sent' = r.sent
    /\ response' = r.response
    /\ apiResult' = r.result
    /\ UNCHANGED <<env, argv>>

NotCalled == [sent |-> <<>>, response |-> NoResponse, result |-> NoApiResult]

Running == exitStatus = -1

\* main: len(sys.argv) < 2
MainNoArgs ==
    /\ Running /\ Len(argv) = 0
    /\ Exit(1, NoCall, NotCalled)

\* main: cmd == "VERIFY"
MainVerify ==
    /\ Running /\ Len(argv) >= 1 /\ Upper(argv[1]) = VERIFY
    /\ \E resp \in Responses :
        IF check_auth(env).ok
        THEN Exit(0, Call(<<"G", "E", "T">>, VerifyPath, NoBody), verify_token(env, resp))
        ELSE Exit(1, NoCall, NotCalled)

\* main: cmd not in the supported methods
MainUnknownMethod ==
    /\ Running /\ Len(argv) >= 1
    /\ Upper(argv[1]) # VERIFY /\ Upper(argv[1]) \notin Methods
    /\ Exit(1, NoCall, NotCalled)

\* main: len(sys.argv) < 3
MainMissingPath ==
    /\ Running /\ Len(argv) = 1 /\ Upper(argv[1]) \in Methods
    /\ Exit(1, NoCall, NotCalled)

BodyOf(a) == IF Len(a) > 2 THEN SetTo(a[3]) ELSE NoBody

\* main: the body is given and json.loads(body) raises
MainInvalidBody ==
    /\ Running /\ Len(argv) >= 2 /\ Upper(argv[1]) \in Methods
    /\ Truthy(BodyOf(argv)) /\ ~JsonLoadsOk(BodyOf(argv).val)
    /\ Exit(1, NoCall, NotCalled)

\* main: make_request(cmd, path, body), then exit on result.get("success")
MainRequest ==
    /\ Running /\ Len(argv) >= 2 /\ Upper(argv[1]) \in Methods
    /\ Truthy(BodyOf(argv)) => JsonLoadsOk(BodyOf(argv).val)
    /\ \E resp \in Responses :
        LET r == make_request(env, Upper(argv[1]), argv[2], BodyOf(argv), resp) IN
        Exit(IF SuccessTruthy(r.result) THEN 0 ELSE 1,
             Call(Upper(argv[1]), argv[2], BodyOf(argv)), r)

ApiIdle ==
    /\ env = [token |-> Unset, key |-> Unset, email |-> Unset]
    /\ argv = <<>>
    /\ call = NoCall
    /\ sent = <<>>
    /\ response = NoResponse
    /\ apiResult = NoApiResult
    /\ exitStatus = -1

ApiInit ==
    /\ env \in Envs
    /\ argv \in Argvs
    /\ call = NoCall
    /\ sent = <<>>
    /\ response = NoResponse
    /\ apiResult = NoApiResult
    /\ exitStatus = -1

\* make_request called on its own, with any method and path
RequestInit ==
    /\ env \in Envs
    /\ argv = <<>>
    /\ call = NoCall
    /\ sent = <<>>
    /\ response = NoResponse
    /\ apiResult = NoApiResult
    /\ exitStatus = -1

CallMakeRequest ==
    /\ ~call.made
    /\ \E m \in Methods, p \in Paths, resp \in Responses :
        LET r == make_request(env, m, p, NoBody, resp) IN
        /\ call' = Call(m, p, NoBody)
        /\ sent' = r.sent
        /\ response' = NoResponse    \* not recorded here: only the result is
        /\ apiResult' = r.result
        /\ UNCHANGED <<env, argv, exitStatus>>

-----------------------------------------------------------------------------
(* cf_schema.py: the query functions.  A JSON value is a string, a dict    *)
(* (its items in order) or a list; strings and keys are sequences of       *)
(* characters.                                                             *)

Str(chars) == [t |-> "str", s |-> chars, kids |-> <<>>]
Item(key, value) == [k |-> key, v |-> value]
Dict(items) == [t |-> "dict", s |-> <<>>, kids |-> items]
List(values) == [t |-> "list", s |-> <<>>,
                 kids |-> [i \in 1..Len(values) |-> Item(<<>>, values[i])]]
NoValue == [t |-> "none", s |-> <<>>, kids |-> <<>>]

REF == <<"$ref">>
ERROR == <<"_error">>

\* key in obj
HasKey(obj, key) == obj.t = "dict" /\ \E i \in 1..Len(obj.kids) : obj.kids[i].k = key

\* obj[key]
Get(obj, key) == obj.kids[CHOOSE i \in 1..Len(obj.kids) : obj.kids[i].k = key].v

\* s.split("/")
RECURSIVE Split(_)
Split(s) ==
    IF \A i \in 1..Len(s) : s[i] # "/"
    THEN <<s>>
    ELSE LET i == CHOOSE j \in 1..Len(s) :
                      s[j] = "/" /\ \A h \in 1..(j - 1) : s[h] # "/"
         IN  <<SubSeq(s, 1, i - 1)>> \o Split(SubSeq(s, i + 1, Len(s)))

\* the loop of resolve_ref over the parts of the pointer
RECURSIVE Walk(_, _, _)
Walk(current, parts, ref) ==
    IF parts = <<>>
    THEN current
    ELSE IF HasKey(current, Head(parts))
    THEN Walk(Get(current, Head(parts)), Tail(parts), ref)
    ELSE Dict(<<Item(REF, Str(ref)),
                Item(ERROR, Str(<<"Could not resolve">>))>>)

resolve_ref(ref, sch) ==
    IF ~StartsWith(ref, <<"#", "/">>)
    THEN Dict(<<Item(REF, Str(ref))>>)
    ELSE Walk(sch, Split(SubSeq(ref, 3, Len(ref))), ref)

\* mutant of DepthExhausted: one more level of references is resolved
DepthExhaustedLate(d) == d < 0

\* expand: if d <= 0
DepthExhausted(d) == d <= 0

\* the inner function expand(obj, d) of expand_endpoint_spec
RECURSIVE expand(_, _, _)
expand(obj, d, sch) ==
    IF DepthExhausted(d)
    THEN obj
    ELSE IF obj.t = "dict"
    THEN IF HasKey(obj, REF) /\ Len(obj.kids) = 1
         THEN expand(resolve_ref(Get(obj, REF).s, sch), d - 1, sch)
         ELSE Dict([i \in 1..Len(obj.kids) |->
                       Item(obj.kids[i].k, expand(obj.kids[i].v, d, sch))])
    ELSE IF obj.t = "list"
    THEN List([i \in 1..Len(obj.kids) |-> expand(obj.kids[i].v, d, sch)])
    ELSE obj

expand_endpoint_spec(endpoint, sch, depth) ==
    IF depth <= 0 THEN endpoint ELSE expand(endpoint, depth, sch)

\* the depth main expands an endpoint to (the default of the parameter)
DefaultDepth == 2

\* bounded schemas: the components "A" and "B", whose values are built from
\* a string, references and a dict that has "$ref" beside another key
RefStrings == {<<"#", "/", "A">>, <<"#", "/", "B">>, <<"#", "/", "A", "/", "k">>,
               <<"#", "/", "C">>, <<"A">>}
RefDict(r) == Dict(<<Item(REF, Str(r))>>)
Leaves ==
    {Str(<<"x">>)}
    \cup {RefDict(r) : r \in RefStrings}
    \cup {Dict(<<Item(REF, Str(<<"#", "/", "A">>)), Item(<<"k">>, Str(<<"x">>))>>)}
Branches ==
    {Dict(<<Item(<<"k">>, RefDict(<<"#", "/", r>>)), Item(<<"j">>, RefDict(<<"#", "/", q>>))>>) :
        r \in {"A", "B"}, q \in {"A", "B"}}
RECURSIVE Values(_)
Values(n) ==
    IF n = 0
    THEN Leaves
    ELSE LET inner == Values(n - 1) IN
         inner \cup {Dict(<<Item(<<"k">>, v)>>) : v \in inner}
               \cup {List(<<v>>) : v \in inner}
               \cup Branches

Components(a, b) == Dict(<<Item(<<"A">>, a), Item(<<"B">>, b)>>)

QueryIdle ==
    /\ schema = NoValue
    /\ arg = NoValue
    /\ out = NoValue

ExpandInit ==
    /\ schema \in {Components(a, b) : a \in Values(MaxNest), b \in Values(MaxNest)}
    /\ arg \in [endpoint : Leaves \cup Branches, depth : 0..DefaultDepth]
    /\ out = NoValue

\* main, cmd == "get": expanded = expand_endpoint_spec(endpoint, schema)
CallExpand ==
    /\ out = NoValue
    /\ out' = expand_endpoint_spec(arg.endpoint, schema, arg.depth)
    /\ UNCHANGED <<schema, arg>>

\* obj.get(key, "") for a key whose value is a string
GetStr(obj, key) == IF HasKey(obj, key) THEN Get(obj, key).s ELSE <<>>

\* sub in s
Contains(s, sub) ==
    \E i \in 0..(Len(s) - Len(sub)) : SubSeq(s, i + 1, i + Len(sub)) = sub

PATHS == <<"paths">>
SUMMARY == <<"summary">>
DESCRIPTION == <<"description">>
OPERATION_ID == <<"operationId">>
PARAMETERS == <<"p", "a", "r", "a", "m", "e", "t", "e", "r", "s">>

\* f"{path} {summary} {description} {operation_id}".lower()
Searchable(path, spec) ==
    Lower(path \o <<" ">> \o GetStr(spec, SUMMARY) \o <<" ">>
               \o GetStr(spec, DESCRIPTION) \o <<" ">> \o GetStr(spec, OPERATION_ID))

\* summary[:100] + "..." if len(summary) > 100 else summary
ShownSummary(summary) ==
    IF Len(summary) > 100 THEN SubSeq(summary, 1, 100) \o <<".", ".", ".">> ELSE summary

\* the body of the inner loop of search_endpoints: the results one method
\* key of a path adds
SearchMethod(query_lower, path, method, spec) ==
    IF StartsWith(method, <<"x", "-">>) \/ method = PARAMETERS
    THEN <<>>
    ELSE IF spec.t # "dict"
    THEN <<>>
    ELSE IF Contains(Searchable(path, spec), query_lower)
    THEN <<Dict(<<Item(<<"path">>, Str(path)),
                  Item(<<"method">>, Str(Upper(method))),
                  Item(SUMMARY, Str(ShownSummary(GetStr(spec, SUMMARY)))),
                  Item(OPERATION_ID, Str(GetStr(spec, OPERATION_ID)))>>)>>
    ELSE <<>>

\* for method, spec in methods.items()
RECURSIVE SearchMethods(_, _, _, _)
SearchMethods(query_lower, path, methods, j) ==
    IF j > Len(methods.kids)
    THEN <<>>
    ELSE SearchMethod(query_lower, path, methods.kids[j].k, methods.kids[j].v)
             \o SearchMethods(query_lower, path, methods, j + 1)

\* for path, methods in paths.items()
RECURSIVE SearchPaths(_, _, _)
SearchPaths(query_lower, paths, i) ==
    IF i > Len(paths.kids)
    THEN <<>>
    ELSE SearchMethods(query_lower, paths.kids[i].k, paths.kids[i].v, 1)
             \o SearchPaths(query_lower, paths, i + 1)

search_endpoints(query, sch) ==
    LET paths == IF HasKey(sch, PATHS) THEN Get(sch, PATHS) ELSE Dict(<<>>) IN
    SearchPaths(Lower(query), paths, 1)

\* bounded schemas: the path "/a" with get, a "parameters" entry and an
\* "x-" entry, and the path "/B" with post; and bounded queries
Fields(summaries, descriptions, ids) ==
    {Dict(s \o d \o o) :
        s \in {<<>>} \cup {<<Item(SUMMARY, Str(x))>> : x \in summaries},
        d \in {<<>>} \cup {<<Item(DESCRIPTION, Str(x))>> : x \in descriptions},
        o \in {<<>>} \cup {<<Item(OPERATION_ID, Str(x))>> : x \in ids}}
OperationSpecs == Fields({<<"a">>, <<"B">>}, {<<"b">>}, {<<"a", "B">>})
SearchSchemas ==
    {Dict(<<Item(PATHS, Dict(<<
        Item(<<"/", "a">>, Dict(<<Item(PARAMETERS, Dict(<<Item(SUMMARY, Str(<<"a">>))>>)),
                                  Item(<<"g", "e", "t">>, g),
                                  Item(<<"x", "-", "a">>, Dict(<<Item(SUMMARY, Str(<<"a">>))>>))>>)),
        Item(<<"/", "B">>, Dict(<<Item(<<"p", "o", "s", "t">>, q)>>))>>))>>) :
        g \in OperationSpecs, q \in OperationSpecs \cup {Str(<<"x">>)}}
    \cup {Dict(<<>>)}
Queries == SeqsUpTo({"a", "b", "B", " "}, MaxQueryLen)

SearchInit ==
    /\ schema \in SearchSchemas
    /\ arg \in {Str(q) : q \in Queries}
    /\ out = NoValue

\* main, cmd == "search": results = search_endpoints(query, schema)
CallSearch ==
    /\ out = NoValue
    /\ out' = List(search_endpoints(arg.s, schema))
    /\ UNCHANGED <<schema, arg>>

-----------------------------------------------------------------------------
(* The specifications.                                                     *)

Init == CacheInit /\ ApiIdle /\ QueryIdle

Next ==
    \/ CmdFetch /\ UNCHANGED <<apiVars, queryVars>>
    \/ CmdSearch /\ UNCHANGED <<apiVars, queryVars>>
    \/ CmdGet /\ UNCHANGED <<apiVars, queryVars>>
    \/ CmdList /\ UNCHANGED <<apiVars, queryVars>>
    \/ CmdInfo /\ UNCHANGED <<apiVars, queryVars>>
    \/ Tick /\ UNCHANGED <<apiVars, queryVars>>

Spec == Init /\ [][Next]_vars

InitApi == ApiInit /\ CacheInit /\ QueryIdle

NextApi ==
    \/ MainNoArgs /\ UNCHANGED <<cacheVars, queryVars>>
    \/ MainVerify /\ UNCHANGED <<cacheVars, queryVars>>
    \/ MainUnknownMethod /\ UNCHANGED <<cacheVars, queryVars>>
    \/ MainMissingPath /\ UNCHANGED <<cacheVars, queryVars>>
    \/ MainInvalidBody /\ UNCHANGED <<cacheVars, queryVars>>
    \/ MainRequest /\ UNCHANGED <<cacheVars, queryVars>>

SpecApi == InitApi /\ [][NextApi]_vars

InitRequest == RequestInit /\ CacheInit /\ QueryIdle

NextRequest == CallMakeRequest /\ UNCHANGED <<cacheVars, queryVars>>

SpecRequest == InitRequest /\ [][NextRequest]_vars

InitExpand == ExpandInit /\ CacheInit /\ ApiIdle

NextExpand == CallExpand /\ UNCHANGED <<cacheVars, apiVars>>

SpecExpand == InitExpand /\ [][NextExpand]_vars

InitSearch == SearchInit /\ CacheInit /\ ApiIdle

NextSearch == CallSearch /\ UNCHANGED <<cacheVars, apiVars>>

SpecSearch == InitSearch /\ [][NextSearch]_vars

-----------------------------------------------------------------------------
(* Claims about the cache, checked under Spec.                              *)

\* the command that ran at this instant went through load_schema/fetch_schema
Loaded == last.result.st # "none"

\* the sidecar describes the schema file on disk
SidecarDescribesFile ==
    /\ cacheFile.st = "ok"
    /\ cacheFile.doc.kind = "obj"
    /\ cacheMeta.paths_count = PathsCount(cacheFile.doc)
    /\ cacheMeta.version = MetaVersion(cacheFile.doc)
    /\ cacheMeta.cached_at = cacheFile.dl

\* C1: a command that finds a fresh cache and is not forced performs no
\* download, returns the content of the cached schema file and leaves both
\* cache files unchanged.
C1_FreshCacheServed ==
    (Loaded /\ last.pre = "fresh" /\ ~last.force) =>
        /\ ~last.attempted
        /\ ~last.changed
        /\ cacheFile.st = "ok"
        /\ last.result = Returned(cacheFile.doc)

\* C2 as stated: a command that finds a stale, unreadable or missing cache
\* re-fetches: afterwards the schema file holds the downloaded document,
\* cached_at is the time of this fetch and is_cache_valid is true.
C2_StaleAlwaysRefetched ==
    (Loaded /\ last.pre \in {"stale", "unreadable", "missing"}) =>
        /\ last.attempted
        /\ cacheFile.st = "ok"
        /\ last.result = Returned(cacheFile.doc)
        /\ cacheFile.dl = now
        /\ cacheMeta.st = "ok"
        /\ cacheMeta.cached_at = now
        /\ is_cache_valid(cacheFile, cacheMeta, now)

\* C2 amended: a command that finds a stale, unreadable or missing cache
\* always attempts the download; when the download yields a JSON object and
\* both cache writes succeed, the schema file holds the downloaded document,
\* cached_at is the time of this fetch and the cache is fresh, and a command
\* that finds a fresh cache and is not forced does not download.
C2_StaleRefetchedWhenFetchSucceeds ==
    /\ (Loaded /\ last.pre \in {"stale", "unreadable", "missing"}) =>
          /\ last.attempted
          /\ last.failedAt = "none" =>
                /\ cacheFile.st = "ok"
                /\ last.result = Returned(cacheFile.doc)
                /\ cacheFile.dl = now
                /\ cacheMeta.st = "ok"
                /\ cacheMeta.cached_at = now
                /\ is_cache_valid(cacheFile, cacheMeta, now)
                /\ CacheCondition(cacheFile, cacheMeta, now) = "fresh"
    /\ (Loaded /\ last.pre = "fresh" /\ ~last.force) => ~last.attempted

\* a stale cache (the sidecar parsed and was CACHE_HOURS or more old) was
\* re-fetched with success by a command other than fetch
C2_Witness ==
    /\ last.cmd = "search"
    /\ last.pre = "stale"
    /\ last.attempted
    /\ last.failedAt = "none"
    /\ cacheMeta.cached_at = now
    /\ now >= CACHE_HOURS

\* C7: when the download (or parsing the downloaded document) fails and a
\* cached schema file exists, its content is returned, both files are left
\* unchanged and the cache stays stale; when none exists the error
\* propagates and no cache file is created.
C7_FallbackOnFailedFetch ==
    (Loaded /\ last.attempted /\ last.failedAt = "download") =>
        /\ ~last.changed
        /\ IF cacheFile.st # "absent"
           THEN /\ cacheFile.st = "ok"
                /\ last.result = Returned(cacheFile.doc)
                /\ ~is_cache_valid(cacheFile, cacheMeta, now)
           ELSE last.result = Raise

\* C7 amended: when the download (or parsing the downloaded document) fails,
\* both cache files are left unchanged, so a cache that was not fresh stays
\* not fresh and a fresh one (the fetch was forced) stays fresh; a cached
\* schema file that exists is read back (its content is returned when it
\* parses, and the read raises when it does not); when none exists the error
\* propagates and no cache file is created.
C7_FallbackReadsCacheBack ==
    (Loaded /\ last.attempted /\ last.failedAt = "download") =>
        /\ ~last.changed
        /\ cacheFile.st = "ok" => last.result = Returned(cacheFile.doc)
        /\ cacheFile.st # "ok" => last.result = Raise
        /\ last.pre # "fresh" => ~is_cache_valid(cacheFile, cacheMeta, now)
        /\ last.pre = "fresh" => last.force /\ is_cache_valid(cacheFile, cacheMeta, now)
        /\ last.pre = "missing" => (cacheFile.st = "absent" \/ cacheMeta.st = "absent")

\* a download failed on a stale cache and the stale schema file was returned
C7_Witness ==
    /\ Loaded
    /\ last.attempted
    /\ last.failedAt = "download"
    /\ last.pre = "stale"
    /\ cacheFile.st = "ok"
    /\ last.result = Returned(cacheFile.doc)
    /\ ~is_cache_valid(cacheFile, cacheMeta, now)

\* C10: whenever is_cache_valid is true, the sidecar describes the schema
\* file on disk: paths_count, version and cached_at are those of the
\* document in the file.
C10_SidecarConsistent ==
    is_cache_valid(cacheFile, cacheMeta, now) => SidecarDescribesFile

-----------------------------------------------------------------------------
(* Claims about make_request, checked under SpecRequest.                   *)

\* the authentication headers of the scheme the environment configures
SchemeHeaders ==
    IF Truthy(env.token)
    THEN {Header("Authorization", <<"Bearer ">> \o env.token.val)}
    ELSE {Header("X-Auth-Key", env.key.val), Header("X-Auth-Email", env.email.val)}

Configured == Truthy(env.token) \/ (Truthy(env.key) /\ Truthy(env.email))

\* the base URL followed by the path, a leading "/" added when it has none
BasePlusPath(path) ==
    IF Len(path) > 0 /\ path[1] = "/"
    THEN BASE_URL \o path
    ELSE BASE_URL \o <<"/">> \o path

-----------------------------------------------------------------------------
(* Claims about the forwarder, checked under SpecApi.                      *)

Exited == exitStatus # -1

HeaderNames(hs) == {h.name : h \in hs}

\* C4: the forwarder exits with status 0 only if the API call was made and
\* its response reports success.
C4_ExitZeroOnlyOnSuccess ==
    exitStatus = 0 => (Len(sent) = 1 /\ SuccessTruthy(apiResult))

\* C5: get_auth_headers returns only Authorization: Bearer (whenever the
\* token is non-empty), or exactly X-Auth-Key and X-Auth-Email (only when
\* the token is absent or empty and key and email are both non-empty), or
\* nothing; check_auth reports "configured" exactly when the headers are
\* not empty; the request sent carries these headers.
C5_SchemesExclusive ==
    LET hs == get_auth_headers(env) IN
    /\ HeaderNames(hs) \in {{}, {"Authorization"}, {"X-Auth-Key", "X-Auth-Email"}}
    /\ Truthy(env.token) <=> HeaderNames(hs) = {"Authorization"}
    /\ (~Truthy(env.token) /\ Truthy(env.key) /\ Truthy(env.email))
           <=> HeaderNames(hs) = {"X-Auth-Key", "X-Auth-Email"}
    /\ hs # {} => hs = SchemeHeaders
    /\ check_auth(env).ok <=> hs # {}
    /\ \A i \in 1..Len(sent) :
           /\ sent[i].headers \ {Header("Content-Type", <<"application/json">>)} = hs
           /\ ~({"Authorization", "X-Auth-Key"} \subseteq HeaderNames(sent[i].headers))

\* a request was sent with the key and email pair while the token is set
\* to the empty string
C5_Witness ==
    /\ Exited /\ Len(sent) = 1
    /\ env.token = SetTo(<<>>)
    /\ HeaderNames(sent[1].headers) = {"X-Auth-Key", "X-Auth-Email", "Content-Type"}

CmdWord == IF Len(argv) >= 1 THEN Upper(argv[1]) ELSE <<>>

\* C6 as stated: one invocation sends at most one request, and none when
\* no credentials are configured, the method is unknown, the path is
\* missing or the supplied body is not valid JSON.
C6_AtMostOneRequest ==
    Exited =>
        /\ Len(sent) <= 1
        /\ ~Configured => sent = <<>>
        /\ (CmdWord # VERIFY /\ CmdWord \notin Methods) => sent = <<>>
        /\ (CmdWord \in Methods /\ Len(argv) < 2) => sent = <<>>
        /\ (CmdWord \in Methods /\ Len(argv) >= 3 /\ ~JsonLoadsOk(argv[3])) => sent = <<>>

\* C6 amended: as C6, with "the supplied body is not empty and is not valid
\* JSON": an empty body argument is taken as no body and the request is sent.
C6_AtMostOneRequestNonEmptyBody ==
    Exited =>
        /\ Len(sent) <= 1
        /\ ~Configured => sent = <<>>
        /\ (CmdWord # VERIFY /\ CmdWord \notin Methods) => sent = <<>>
        /\ (CmdWord \in Methods /\ Len(argv) < 2) => sent = <<>>
        /\ (CmdWord \in Methods /\ Len(argv) >= 3 /\ argv[3] # <<>> /\ ~JsonLoadsOk(argv[3]))
               => sent = <<>>
        /\ (CmdWord \in Methods /\ Len(argv) >= 3 /\ argv[3] = <<>> /\ Configured)
               => (Len(sent) = 1 /\ ~sent[1].data.set)

\* a request that ended in a connection error was sent once and not again
C6_Witness ==
    /\ Exited /\ Len(sent) = 1
    /\ response.http = "urlerror"
    /\ CmdWord = <<"P", "O", "S", "T">>
    /\ exitStatus = 1

-----------------------------------------------------------------------------
(* Claims about expand_endpoint_spec, checked under SpecExpand.            *)

\* one round of substitution: every dict whose only key is "$ref" is
\* replaced by what its reference resolves to, and nothing inside the
\* replacement is touched
RECURSIVE Unfold(_, _)
Unfold(obj, sch) ==
    IF obj.t = "dict" /\ Len(obj.kids) = 1 /\ obj.kids[1].k = REF
    THEN resolve_ref(obj.kids[1].v.s, sch)
    ELSE [obj EXCEPT !.kids = [i \in 1..Len(obj.kids) |->
                                  Item(obj.kids[i].k, Unfold(obj.kids[i].v, sch))]]

RECURSIVE UnfoldTimes(_, _, _)
UnfoldTimes(obj, n, sch) ==
    IF n = 0 THEN obj ELSE UnfoldTimes(Unfold(obj, sch), n - 1, sch)

Expanded == out # NoValue

\* C8: expand_endpoint_spec returns for every schema, cyclic ones included;
\* its result is the endpoint with "$ref" dicts replaced by their targets
\* in exactly `depth` rounds (2 by default), so that no chain of the result
\* went through more than `depth` resolutions and a reference met after
\* that is left in place; a reference that does not start with "#/" is
\* kept as it is and one that does not resolve is kept as a dict that
\* holds the "$ref".
C8_ExpansionBounded ==
    Expanded =>
        /\ out = UnfoldTimes(arg.endpoint, arg.depth, schema)
        /\ arg.endpoint = RefDict(<<"A">>) => out = arg.endpoint
        /\ (arg.endpoint = RefDict(<<"#", "/", "C">>) /\ arg.depth > 0) =>
              /\ out.t = "dict"
              /\ HasKey(out, REF)
              /\ Get(out, REF) = Str(<<"#", "/", "C">>)
        /\ (arg.endpoint = RefDict(<<"#", "/", "A">>) /\ arg.depth > 0
                /\ Get(schema, <<"A">>) = RefDict(<<"#", "/", "A">>)) =>
              out = arg.endpoint

\* the components A and B refer to each other: expanding a reference to A
\* to depth 2 resolves A, then B, and leaves the reference back to A
C8_Witness ==
    /\ schema = Components(Dict(<<Item(<<"k">>, RefDict(<<"#", "/", "B">>))>>),
                           Dict(<<Item(<<"k">>, RefDict(<<"#", "/", "A">>))>>))
    /\ arg = [endpoint |-> RefDict(<<"#", "/", "A">>), depth |-> DefaultDepth]
    /\ out = Dict(<<Item(<<"k">>,
                 Dict(<<Item(<<"k">>, RefDict(<<"#", "/", "A">>))>>))>>)

-----------------------------------------------------------------------------
(* Claims about search_endpoints, checked under SpecSearch.                *)

\* the operations of the schema, in schema order: a path with a method key
\* that is not "parameters", does not start with "x-" and maps to a dict
Operations(sch) ==
    LET paths == IF HasKey(sch, PATHS) THEN Get(sch, PATHS).kids ELSE <<>>
        OpsOf(i) ==
            LET ms == paths[i].v.kids
                Keep(j) == /\ ms[j].k # PARAMETERS
                           /\ ~StartsWith(ms[j].k, <<"x", "-">>)
                           /\ ms[j].v.t = "dict"
                F[j \in 0..Len(ms)] ==
                    IF j = 0 THEN <<>>
                    ELSE IF Keep(j)
                    THEN Append(F[j - 1], [path |-> paths[i].k, method |-> ms[j].k,
                                           spec |-> ms[j].v])
                    ELSE F[j - 1]
            IN  F[Len(ms)]
        G[i \in 0..Len(paths)] == IF i = 0 THEN <<>> ELSE G[i - 1] \o OpsOf(i)
    IN  G[Len(paths)]

\* the lower-cased query is a substring of one of the four lower-cased fields
MatchesAField(op, query) ==
    \/ Contains(Lower(op.path), Lower(query))
    \/ Contains(Lower(GetStr(op.spec, SUMMARY)), Lower(query))
    \/ Contains(Lower(GetStr(op.spec, DESCRIPTION)), Lower(query))
    \/ Contains(Lower(GetStr(op.spec, OPERATION_ID)), Lower(query))

\* the (path, method) pairs of the operations that match a field, in order
MatchingOperations(sch, query) ==
    LET ops == Operations(sch)
        F[j \in 0..Len(ops)] ==
            IF j = 0 THEN <<>>
            ELSE IF MatchesAField(ops[j], query)
            THEN Append(F[j - 1], <<ops[j].path, Upper(ops[j].method)>>)
            ELSE F[j - 1]
    IN  F[Len(ops)]

\* the (path, method) pairs of the results returned
ReturnedOperations ==
    [i \in 1..Len(out.kids) |->
        <<Get(out.kids[i].v, <<"path">>).s, Get(out.kids[i].v, <<"method">>).s>>]

Searched == out # NoValue

\* C9: search_endpoints returns exactly the operations one of whose four
\* fields (path, summary, description, operationId), lower-cased, contains
\* the lower-cased query: each once, in schema order.
C9_SearchMatchesFields ==
    Searched => ReturnedOperations = MatchingOperations(schema, arg.s)

====
